---- MODULE Spec2Model ----
(***************************************************************************)
(* Model of package diff (Merovius/diff): Uint64, the Hunt-McIlroy integer *)
(* diff, and Text, the tokenising layer on top of it.                      *)
(*                                                                         *)
(* One call is one behaviour: Init draws the arguments, the actions are    *)
(* the successive phases of the call.  Go slices are modelled by their     *)
(* contents; argA/argB are the caller's backing arrays (what the caller    *)
(* sees after the call), a/b the callee's local slices, origA/origB the    *)
(* arguments as they were when the call was made.  Go indices are 0-based; *)
(* a Go index x is position x+1 of the TLA+ sequence.  Pointers to         *)
(* candidate records are indices into the arena cands, 0 is nil.           *)
(***************************************************************************)
EXTENDS Integers, Sequences, FiniteSets, TLC

\* ---------------------------------------------------------------- bounds
MaxLen == 4
NumVals == 2
MaxBytes == 3

Values == 0 .. (NumVals - 1)
SeqsUpTo(S, n) == UNION {[1 .. k -> S] : k \in 0 .. n}

\* ------------------------------------------------------------ operations
OpA == -1
OpEq == 0
OpB == 1

\* '\n' and two other byte values.
NL == 10
Bytes == {NL, 11, 12}

Nil == 0

Repeat(x, n) == [k \in 1 .. n |-> x]

\* sort.Search(n, f): binary search for the smallest index in [0, n) at which
\* f is true, n if there is none; f is given as the sequence of its values.
RECURSIVE SearchFrom(_, _, _)
SearchFrom(f, lo, hi) ==
    IF lo < hi
    THEN LET h == (lo + hi) \div 2
         IN IF ~f[h + 1] THEN SearchFrom(f, h + 1, hi) ELSE SearchFrom(f, lo, h)
    ELSE lo

SortSearch(f) == SearchFrom(f, 0, Len(f))

\* ------------------------------------------------------------- tokenize
\* bytes.IndexByte(b, '\n'): 0-based index of the first newline, -1 if none.
IndexNL(bs) ==
    IF \E k \in 1 .. Len(bs) : bs[k] = NL
    THEN (CHOOSE k \in 1 .. Len(bs) : bs[k] = NL /\ \A m \in 1 .. (k - 1) : bs[m] # NL) - 1
    ELSE -1

SplitLines(bs) ==
    LET n == IndexNL(bs)
    IN IF n < 0 THEN [tok |-> Len(bs), skip |-> 0] ELSE [tok |-> n, skip |-> 1]

RECURSIVE tokens(_)
tokens(bs) ==
    IF Len(bs) > 0
    THEN LET sp == SplitLines(bs)
         IN <<SubSeq(bs, 1, sp.tok)>> \o tokens(SubSeq(bs, sp.tok + sp.skip + 1, Len(bs)))
    ELSE <<>>

\* Two hash functions a caller may pass: one without collisions on the
\* tokens of the model, one that maps every token to its length.
RECURSIVE HashPositional(_)
HashPositional(tok) ==
    IF tok = <<>> THEN 1 ELSE 16 * HashPositional(Tail(tok)) + Head(tok)

HashLength(tok) == Len(tok)

HashFuncs == {"positional", "length"}

ApplyHash(h, tok) == IF h = "positional" THEN HashPositional(tok) ELSE HashLength(tok)

hashes(h, toks) == [k \in 1 .. Len(toks) |-> ApplyHash(h, toks[k])]

\* ------------------------------------------------- Uint64: trimming phase
\* A prefix loop that never runs.
CommonPrefixNone(x, y) == 0

\* Number of iterations of the prefix loop.
RECURSIVE CommonPrefix(_, _)
CommonPrefix(x, y) ==
    IF Len(x) > 0 /\ Len(y) > 0 /\ x[1] = y[1]
    THEN 1 + CommonPrefix(Tail(x), Tail(y))
    ELSE 0

\* Number of iterations of the suffix loop.
RECURSIVE CommonSuffix(_, _)
CommonSuffix(x, y) ==
    IF Len(x) > 0 /\ Len(y) > 0 /\ x[Len(x)] = y[Len(y)]
    THEN 1 + CommonSuffix(SubSeq(x, 1, Len(x) - 1), SubSeq(y, 1, Len(y) - 1))
    ELSE 0

\* The loop "for i := 0; i < len(suffix)/2; i++ { a[i], a[len(a)-i-1] = ... }"
\* from iteration i on.  An index outside [0, len(a)) is a run-time panic;
\* the swaps made before it stay in the array.
RECURSIVE ReverseLoop(_, _, _)
ReverseLoop(x, i, n) ==
    IF i < n
    THEN LET lo == i
             hi == Len(x) - i - 1
         IN IF lo >= Len(x) \/ hi < 0 \/ hi >= Len(x)
            THEN [panic |-> TRUE, arr |-> x]
            ELSE ReverseLoop([x EXCEPT ![lo + 1] = x[hi + 1], ![hi + 1] = x[lo + 1]], i + 1, n)
    ELSE [panic |-> FALSE, arr |-> x]

\* The early returns with the two operation kinds exchanged.
MiddleSwapped(x, y) ==
    IF Len(x) = 0 THEN Repeat(OpA, Len(y)) ELSE Repeat(OpB, Len(x))

\* The two early returns: the middle block when one side is empty.
MiddleOneSided(x, y) ==
    IF Len(x) = 0 THEN Repeat(OpB, Len(y)) ELSE Repeat(OpA, Len(x))

\* --------------------------------------------------- equivalence classes
less(x, y) == IF x.v = y.v THEN x.i < y.i ELSE x.v < y.v

\* Insert e into a sequence sorted by less.
RECURSIVE InsertSorted(_, _)
InsertSorted(e, s) ==
    IF s = <<>> THEN <<e>>
    ELSE IF less(e, Head(s)) THEN <<e>> \o s
    ELSE <<Head(s)>> \o InsertSorted(e, Tail(s))

\* sort.Slice(l, less): less is a strict total order on the elements (the
\* indices i are distinct), so the sorted sequence is unique.
RECURSIVE SortClasses(_)
SortClasses(s) ==
    IF s = <<>> THEN <<>> ELSE InsertSorted(Head(s), SortClasses(Tail(s)))

\* Called with a non-empty y only (both early returns precede it).
makeClasses(y) ==
    LET unsorted == [k \in 1 .. Len(y) |-> [i |-> k - 1, v |-> y[k], last |-> FALSE]]
        sorted == SortClasses(unsorted)
    IN [k \in 1 .. Len(sorted) |->
            [sorted[k] EXCEPT !.last = (k = Len(sorted)) \/ sorted[k].v # sorted[k + 1].v]]

findFirst(cl, v) ==
    LET n == SortSearch([k \in 1 .. Len(cl) |-> cl[k].v >= v])
    IN IF n < Len(cl) /\ cl[n + 1].v # v THEN Len(cl) ELSE n

\* ------------------------------------------------------ candidate search
\* The test with <= in place of <.
ExtendsOrEqual(tab, arena, s, j) == arena[tab[s]].j <= j

\* The condition under which the scan takes the match j, given the slot s
\* found by the binary search: K[s-1].j < j.
Extends(tab, arena, s, j) == arena[tab[s]].j < j

\* The inner loop "for e := p[i]; e < len(l); e++" from e on.  Result: the
\* slot s and index j of the match taken, or found = FALSE.  panic is an
\* index out of range (s = 0) or a nil slot of K.
RECURSIVE ScanGroup(_, _, _, _, _)
ScanGroup(e, cl, tab, arena, nb) ==
    IF e >= Len(cl)
    THEN [panic |-> FALSE, found |-> FALSE]
    ELSE LET j == cl[e + 1].i
         IN IF j >= nb
            THEN [panic |-> FALSE, found |-> FALSE]
            ELSE IF \E k \in 1 .. Len(tab) : tab[k] = Nil
            THEN [panic |-> TRUE, found |-> FALSE]
            ELSE LET s == SortSearch([k \in 1 .. Len(tab) |-> arena[tab[k]].j > j])
                 IN IF s = 0
                    THEN [panic |-> TRUE, found |-> FALSE]
                    ELSE IF Extends(tab, arena, s, j)
                    THEN [panic |-> FALSE, found |-> TRUE, s |-> s, j |-> j]
                    ELSE IF cl[e + 1].last
                    THEN [panic |-> FALSE, found |-> FALSE]
                    ELSE ScanGroup(e + 1, cl, tab, arena, nb)

\* One iteration of "for i := range a": the table and the arena after it.
SearchBody(idx, cl, first, tab, arena, nb) ==
    LET r0 == 0
        c0 == tab[1]
        m == ScanGroup(first[idx + 1], cl, tab, arena, nb)
    IN IF m.panic
       THEN [panic |-> TRUE, K |-> tab, cands |-> arena]
       ELSE IF m.found
       THEN LET grown == IF m.s = Len(tab) THEN Append(tab, Nil) ELSE tab
                new == [i |-> idx, j |-> m.j, prev |-> tab[m.s]]
                ptr == Len(arena) + 1
                \* K[r], r, c = c, s, &candidate{i, j, K[s-1]}
                k1 == [grown EXCEPT ![r0 + 1] = c0]
                \* K[r] = c
                k2 == [k1 EXCEPT ![m.s + 1] = ptr]
            IN [panic |-> FALSE, K |-> k2, cands |-> Append(arena, new)]
       ELSE [panic |-> FALSE, K |-> [tab EXCEPT ![r0 + 1] = c0], cands |-> arena]

\* -------------------------------------------------------- reconstruction
\* The loop "for o := len(out)-1; o >= 0; o--" from o on; acc is out[o+1:].
RECURSIVE Walk(_, _, _, _, _, _, _)
Walk(o, ii, jj, c, arena, sw, acc) ==
    IF o < 0
    THEN [panic |-> FALSE, out |-> acc]
    ELSE IF c = Nil
    THEN [panic |-> TRUE, out |-> acc]
    ELSE IF ii > arena[c].i
    THEN Walk(o - 1, ii - 1, jj, c, arena, sw, <<OpA * sw>> \o acc)
    ELSE IF jj > arena[c].j
    THEN Walk(o - 1, ii, jj - 1, c, arena, sw, <<OpB * sw>> \o acc)
    ELSE Walk(o - 1, ii - 1, jj - 1, arena[c].prev, arena, sw, <<OpEq>> \o acc)

\* An output array one element too short.
OutLenShort(na, nb, k) == na + nb - k - 1

\* len(out) = len(a)+len(b)-k
OutLen(na, nb, k) == na + nb - k

Reconstruct(x, y, tab, arena, sw) ==
    LET k == Len(tab) - 1
        c == tab[Len(tab)]
        n == OutLen(Len(x), Len(y), k)
    IN IF n < 0
       THEN [panic |-> TRUE, out |-> <<>>]
       ELSE Walk(n - 1, Len(x) - 1, Len(y) - 1, c, arena, sw, <<>>)

\* ------------------------------------------------------------------ Text
NoText == <<-1>>

\* The two ifs in the opposite order.
DeltaTextRight(d, la, lb) ==
    LET t1 == IF d < OpB THEN la[1] ELSE NoText
    IN IF d > OpA THEN lb[1] ELSE t1

\* The Text field of the delta for operation d: the two ifs in order.
DeltaText(d, la, lb) ==
    LET t1 == IF d > OpA THEN lb[1] ELSE NoText
    IN IF d < OpB THEN la[1] ELSE t1

\* The loop "for _, d := range diff" of Text; indexing an empty token list
\* is a run-time panic.
RECURSIVE Attach(_, _, _)
Attach(ops, la, lb) ==
    IF ops = <<>>
    THEN [panic |-> FALSE, out |-> <<>>]
    ELSE LET d == Head(ops)
         IN IF (d > OpA /\ lb = <<>>) \/ (d < OpB /\ la = <<>>)
            THEN [panic |-> TRUE, out |-> <<>>]
            ELSE LET rest == Attach(Tail(ops),
                                    IF d < OpB THEN Tail(la) ELSE la,
                                    IF d > OpA THEN Tail(lb) ELSE lb)
                 IN [panic |-> rest.panic,
                     out |-> <<[Op |-> d, Text |-> DeltaText(d, la, lb)]>> \o rest.out]

\* ----------------------------------------------------------------- state
VARIABLES mode, pc, textA, textB, hash, tokA, tokB, origA, origB, argA, argB,
          a, b, prefix, suffix, swap, l, p, K, cands, i, out, deltas

vars == <<mode, pc, textA, textB, hash, tokA, tokB, origA, origB, argA, argB,
          a, b, prefix, suffix, swap, l, p, K, cands, i, out, deltas>>

locals == <<a, b, prefix, suffix, swap, l, p, K, cands, i, out, deltas>>

InitLocals ==
    /\ a = <<>> /\ b = <<>> /\ prefix = <<>> /\ suffix = <<>> /\ swap = 1
    /\ l = <<>> /\ p = <<>> /\ K = <<>> /\ cands = <<>> /\ i = 0
    /\ out = <<>> /\ deltas = <<>>

\* A call Uint64(a, b) by a caller holding the two slices.
InitUint64 ==
    /\ mode = "uint64" /\ pc = "call"
    /\ textA = <<>> /\ textB = <<>> /\ hash = "positional"
    /\ tokA = <<>> /\ tokB = <<>>
    /\ origA \in SeqsUpTo(Values, MaxLen) /\ origB \in SeqsUpTo(Values, MaxLen)
    /\ argA = origA /\ argB = origB
    /\ InitLocals

\* A call Text(a, b, nil, h).
InitText ==
    /\ mode = "text" /\ pc = "text"
    /\ textA \in SeqsUpTo(Bytes, MaxBytes) /\ textB \in SeqsUpTo(Bytes, MaxBytes)
    /\ hash \in HashFuncs
    /\ tokA = <<>> /\ tokB = <<>>
    /\ origA = <<>> /\ origB = <<>> /\ argA = <<>> /\ argB = <<>>
    /\ InitLocals

Init == InitUint64 \/ InitText

\* --------------------------------------------------------------- actions
\* Text up to the call of Uint64: both inputs are split and hashed.
Tokenize ==
    /\ mode = "text" /\ pc = "text"
    /\ tokA' = tokens(textA) /\ tokB' = tokens(textB)
    /\ origA' = hashes(hash, tokA') /\ origB' = hashes(hash, tokB')
    /\ argA' = origA' /\ argB' = origB'
    /\ pc' = "call"
    /\ UNCHANGED <<mode, textA, textB, hash, locals>>

\* Uint64: the prefix loop, the suffix loop and the loop over len(suffix)/2.
\* a is a slice of the caller's array, so what the third loop writes to a
\* it writes to argA.
Trim ==
    /\ pc = "call"
    /\ LET np == CommonPrefix(argA, argB)
           a1 == SubSeq(argA, np + 1, Len(argA))
           b1 == SubSeq(argB, np + 1, Len(argB))
           ns == CommonSuffix(a1, b1)
           a2 == SubSeq(a1, 1, Len(a1) - ns)
           b2 == SubSeq(b1, 1, Len(b1) - ns)
           rv == ReverseLoop(a2, 0, ns \div 2)
       IN /\ prefix' = Repeat(OpEq, np)
          /\ suffix' = Repeat(OpEq, ns)
          /\ a' = rv.arr
          /\ b' = b2
          /\ argA' = SubSeq(argA, 1, np) \o rv.arr \o SubSeq(argA, Len(argA) - ns + 1, Len(argA))
          /\ pc' = IF rv.panic THEN "panicked" ELSE "trimmed"
    /\ UNCHANGED <<mode, textA, textB, hash, tokA, tokB, origA, origB, argB,
                   swap, l, p, K, cands, i, out, deltas>>

\* Uint64: the early returns for an empty a or an empty b.
ReturnOneSided ==
    /\ pc = "trimmed"
    /\ Len(a) = 0 \/ Len(b) = 0
    /\ out' = prefix \o MiddleOneSided(a, b) \o suffix
    /\ pc' = "returned"
    /\ UNCHANGED <<mode, textA, textB, hash, tokA, tokB, origA, origB, argA, argB,
                   a, b, prefix, suffix, swap, l, p, K, cands, i, deltas>>

\* Uint64: the swap of the roles, makeClasses, the table p and the table K
\* with its sentinel.
Setup ==
    /\ pc = "trimmed"
    /\ Len(a) # 0 /\ Len(b) # 0
    /\ LET sw == Len(a) < Len(b)
           la == IF sw THEN b ELSE a
           sh == IF sw THEN a ELSE b
           cl == makeClasses(sh)
       IN /\ swap' = IF sw THEN -1 ELSE 1
          /\ a' = la
          /\ b' = sh
          /\ l' = cl
          /\ p' = [k \in 1 .. Len(la) |-> findFirst(cl, la[k])]
    /\ cands' = <<[i |-> -1, j |-> -1, prev |-> Nil]>>
    /\ K' = <<1>>
    /\ i' = 0
    /\ pc' = "search"
    /\ UNCHANGED <<mode, textA, textB, hash, tokA, tokB, origA, origB, argA, argB,
                   prefix, suffix, out, deltas>>

\* Uint64: one iteration of the loop over the longer sequence.
SearchStep ==
    /\ pc = "search"
    /\ i < Len(a)
    /\ LET r == SearchBody(i, l, p, K, cands, Len(b))
       IN /\ K' = r.K
          /\ cands' = r.cands
          /\ pc' = IF r.panic THEN "panicked" ELSE "search"
    /\ i' = i + 1
    /\ UNCHANGED <<mode, textA, textB, hash, tokA, tokB, origA, origB, argA, argB,
                   a, b, prefix, suffix, swap, l, p, out, deltas>>

\* Uint64: the backward walk and the final return.
ReconstructStep ==
    /\ pc = "search"
    /\ i = Len(a)
    /\ LET r == Reconstruct(a, b, K, cands, swap)
       IN /\ out' = prefix \o r.out \o suffix
          /\ pc' = IF r.panic THEN "panicked" ELSE "returned"
    /\ UNCHANGED <<mode, textA, textB, hash, tokA, tokB, origA, origB, argA, argB,
                   a, b, prefix, suffix, swap, l, p, K, cands, i, deltas>>

\* Text after Uint64 has returned: the token of each operation.
AttachText ==
    /\ mode = "text" /\ pc = "returned"
    /\ LET r == Attach(out, tokA, tokB)
       IN /\ deltas' = r.out
          /\ pc' = IF r.panic THEN "textPanicked" ELSE "done"
    /\ UNCHANGED <<mode, textA, textB, hash, tokA, tokB, origA, origB, argA, argB,
                   a, b, prefix, suffix, swap, l, p, K, cands, i, out>>

Next ==
    \/ Tokenize
    \/ Trim
    \/ ReturnOneSided
    \/ Setup
    \/ SearchStep
    \/ ReconstructStep
    \/ AttachText

Spec == Init /\ [][Next]_vars

\* ------------------------------------------------------------ properties
\* Uint64 has returned its list (out).
Returned == pc \in {"returned", "done", "textPanicked"}

Max(x, y) == IF x > y THEN x ELSE y

Count(ops, S) == Cardinality({k \in 1 .. Len(ops) : ops[k] \in S})

\* Length of a longest common subsequence, by the quadratic table.
LCS(x, y) ==
    LET T[ii \in 0 .. Len(x), jj \in 0 .. Len(y)] ==
            IF ii = 0 \/ jj = 0 THEN 0
            ELSE IF x[ii] = y[jj] THEN T[ii - 1, jj - 1] + 1
            ELSE Max(T[ii - 1, jj], T[ii, jj - 1])
    IN T[Len(x), Len(y)]

Rest(x) == IF x = <<>> THEN x ELSE Tail(x)

\* Replay of ops against x and y: every OpEq finds equal front elements.
RECURSIVE EqPairsEqual(_, _, _)
EqPairsEqual(ops, x, y) ==
    \/ ops = <<>>
    \/ /\ ops # <<>>
       /\ Head(ops) = OpEq => (x # <<>> /\ y # <<>> /\ x[1] = y[1])
       /\ EqPairsEqual(Tail(ops),
                       IF Head(ops) < OpB THEN Rest(x) ELSE x,
                       IF Head(ops) > OpA THEN Rest(y) ELSE y)

\* Replay of ops against x and y: no OpA or OpB while the fronts are equal.
RECURSIVE NoSkippedMatch(_, _, _)
NoSkippedMatch(ops, x, y) ==
    \/ ops = <<>>
    \/ /\ ops # <<>>
       /\ (Head(ops) # OpEq /\ x # <<>> /\ y # <<>>) => x[1] # y[1]
       /\ NoSkippedMatch(Tail(ops),
                         IF Head(ops) < OpB THEN Rest(x) ELSE x,
                         IF Head(ops) > OpA THEN Rest(y) ELSE y)

\* C1: when Uint64 has returned, replaying its list against the arguments as
\* they were passed, every OpEq pairs two equal elements.
C1_EqualOpsPairEqualValues == Returned => EqPairsEqual(out, origA, origB)

\* C2: when Uint64 has returned, the number of OpEq in its list is the length
\* of a longest common subsequence of the two arguments.
C2_EqCountIsLCS == Returned => Count(out, {OpEq}) = LCS(origA, origB)

\* C3: Uint64 is total: no call ends in a run-time panic.
C3_NeverPanics == pc # "panicked"

\* C4: when Uint64 has returned, the caller's two slices hold what they held
\* when the call was made.
C4_InputsUnchanged == Returned => (argA = origA /\ argB = origB)

\* C5: when Uint64 has returned, its list holds only the three operations,
\* OpA and OpEq together consume exactly len(a) elements and OpB and OpEq
\* together exactly len(b) elements.
C5_RoundTrip ==
    Returned =>
        /\ Count(out, {OpA, OpEq, OpB}) = Len(out)
        /\ Count(out, {OpA, OpEq}) = Len(origA)
        /\ Count(out, {OpB, OpEq}) = Len(origB)

C5_Witness ==
    /\ mode = "uint64" /\ pc = "returned"
    /\ Count(out, {OpA}) > 0 /\ Count(out, {OpB}) > 0
    /\ Len(K) >= 2 /\ Len(suffix) > 0

\* C6: when Uint64 has returned, replaying its list against the arguments, no
\* OpA or OpB stands where the next elements of both sides are equal.
C6_NoSkippedMatch == Returned => NoSkippedMatch(out, origA, origB)

\* Index in its token list of the token the k-th delta consumes on the side
\* whose operations are S.
TokenIndex(k, S) == Count(SubSeq(out, 1, k - 1), S) + 1

\* C7 (as claimed): when Text has returned, the Text of every OpEq delta is
\* the token of the right-hand (b) token list.
C7_EqTextFromRight ==
    pc = "done" =>
        \A k \in 1 .. Len(deltas) :
            deltas[k].Op = OpEq => deltas[k].Text = tokB[TokenIndex(k, {OpB, OpEq})]

\* C7 (amended): when Text has returned, the Text of every OpEq delta is the
\* token of the left-hand (a) token list.
C7_EqTextFromLeft ==
    pc = "done" =>
        \A k \in 1 .. Len(deltas) :
            deltas[k].Op = OpEq => deltas[k].Text = tokA[TokenIndex(k, {OpA, OpEq})]

C7_Witness ==
    /\ pc = "done"
    /\ \E k \in 1 .. Len(deltas) :
          /\ deltas[k].Op = OpEq
          /\ tokA[TokenIndex(k, {OpA, OpEq})] # tokB[TokenIndex(k, {OpB, OpEq})]

\* C8: a call Uint64(L, L) does not panic and returns len(L) operations, all
\* of them OpEq.
C8_Identity ==
    origA = origB =>
        /\ pc # "panicked"
        /\ Returned => out = Repeat(OpEq, Len(origA))

C8_Witness == mode = "uint64" /\ pc = "returned" /\ origA = origB /\ Len(origA) >= 3

\* C9: a call with an empty a does not panic and returns len(b) operations,
\* all OpB; a call with an empty b does not panic and returns len(a)
\* operations, all OpA (both empty: the empty list).
C9_EmptyInputs ==
    /\ origA = <<>> => (pc # "panicked" /\ (Returned => out = Repeat(OpB, Len(origB))))
    /\ origB = <<>> => (pc # "panicked" /\ (Returned => out = Repeat(OpA, Len(origA))))

C9_Witness == mode = "uint64" /\ pc = "returned" /\ origA = <<>> /\ Len(origB) >= 2

\* Between two iterations of the search every slot of K holds a candidate,
\* K[0] is the sentinel and K[k].j is strictly increasing in k.
KOrdered ==
    pc = "search" =>
        /\ \A k \in 1 .. Len(K) : K[k] \in 1 .. Len(cands)
        /\ Len(K) >= 1 /\ cands[K[1]].j = -1
        /\ \A k \in 1 .. (Len(K) - 1) : cands[K[k]].j < cands[K[k + 1]].j

\* One iteration of the search changes (or adds) at most one slot of K.
OneSlotPerElement ==
    (pc = "search" /\ pc' = "search" /\ i' = i + 1) =>
        Cardinality({k \in 1 .. Len(K') : k > Len(K) \/ K'[k] # K[k]}) <= 1

\* C10: after each element of the longer sequence is processed every slot of
\* K holds a candidate, K[k].j is strictly increasing in k from the sentinel
\* K[0].j = -1, and at most one slot of K has changed.
C10_CandidateTable == [](KOrdered) /\ [][OneSlotPerElement]_vars

C10_Witness == pc = "search" /\ i >= 3 /\ Len(K) >= 3 /\ Len(cands) >= 4

====
